---- MODULE Spec2Model ----
(***************************************************************************)
(* Model of src/aiStockPickers.py: the Streamlit script that fetches the   *)
(* adjusted closes of the tickers of a few portfolios, joins them into one *)
(* date-indexed table, cleans it (ffill + dropna), rebases it to 100,      *)
(* averages it per portfolio and ranks tickers and portfolios.             *)
(*                                                                         *)
(* Floating-point numbers are modelled as exact rationals <<n, d>> (d > 0, *)
(* lowest terms); the missing value NaN is the empty tuple. A DataFrame is *)
(* a record [columns, index, data]: the column labels in order, the index  *)
(* labels in order (dates are day ordinals), and data[date][column].       *)
(***************************************************************************)
EXTENDS Integers, Sequences, FiniteSets, TLC

VARIABLES
    api_key,        \* st.secrets["fmp"]["api_key"], or None when it is missing
    pc,             \* position of the script run
    pending,        \* tickers of all_tickers the loop of get_all_data has not visited yet
    master_df,      \* get_all_data's accumulator, then raw_data of the main flow
    cache,          \* st.cache_data store of fetch_stock_data: key -> [value, expires]
    now,            \* clock of the cache, in seconds
    log,            \* tickers for which fetch_stock_data printed "Error buscando ..."
    last,           \* the most recent call of the cached fetch_stock_data, as observed by its caller
    issued,         \* per cache key, when the latest GET was issued and what the call returned
    ui              \* what the main flow produced: outcome and the three result objects

vars == <<api_key, pc, pending, master_df, cache, now, log, last, issued, ui>>

-----------------------------------------------------------------------------
(* Program constants *)

None == "None"

START_DATE == "2025-12-05"

\* ttl of @st.cache_data, in seconds
TTL == 86400

\* The portfolios of the script, each cut to its first two constituents (the
\* benchmark keeps its single one); Fenrir, a third ten-stock portfolio of the
\* same shape as the other two, is left out to keep the ticker universe small.
PORTFOLIO_NAMES == <<"ChatGPT", "Gemini", "SPY">>

PORTFOLIOS ==
    [ChatGPT |-> <<"MSFT", "NVDA">>,
     Gemini  |-> <<"VRT", "FIX">>,
     SPY     |-> <<"SPY">>]

target_portfolios == <<"ChatGPT", "Gemini">>

-----------------------------------------------------------------------------
(* Sequences and sets *)

Range(s) == {s[i] : i \in DOMAIN s}

Min(S) == CHOOSE x \in S : \A y \in S : x <= y

Max(S) == CHOOSE x \in S : \A y \in S : y <= x

\* the elements of a finite set of integers in ascending order
RECURSIVE SortedSeq(_)
SortedSeq(S) == IF S = {} THEN <<>> ELSE <<Min(S)>> \o SortedSeq(S \ {Min(S)})

Last(s) == s[Len(s)]

-----------------------------------------------------------------------------
(* float64 as exact rationals; NaN *)

NaN == <<>>

Abs(x) == IF x < 0 THEN -x ELSE x

RECURSIVE GCD(_, _)
GCD(a, b) == IF b = 0 THEN a ELSE GCD(b, a % b)

Rat(n, d) ==
    LET g == GCD(Abs(n), Abs(d))
        s == IF d < 0 THEN -1 ELSE 1
    IN  <<(s * n) \div g, (s * d) \div g>>

isna(x) == x = NaN

\* x / 0 is inf or NaN in pandas; prices are positive, so it is folded into NaN
Div(x, y) == IF isna(x) \/ isna(y) \/ y[1] = 0 THEN NaN ELSE Rat(x[1] * y[2], x[2] * y[1])

Mul(x, y) == IF isna(x) \/ isna(y) THEN NaN ELSE Rat(x[1] * y[1], x[2] * y[2])

Add(x, y) == IF isna(x) \/ isna(y) THEN NaN ELSE Rat(x[1] * y[2] + y[1] * x[2], x[2] * y[2])

Sub(x, y) == IF isna(x) \/ isna(y) THEN NaN ELSE Rat(x[1] * y[2] - y[1] * x[2], x[2] * y[2])

\* x > y on floats: false when either is NaN
Greater(x, y) == ~isna(x) /\ ~isna(y) /\ x[1] * y[2] > y[1] * x[2]

Num(k) == <<k, 1>>

-----------------------------------------------------------------------------
(* pandas DataFrame *)

\* the frame with these labels whose cell at (d, t) is cell[d, t]
DataFrame(columns, index, cell) ==
    [columns |-> columns,
     index   |-> index,
     data    |-> [d \in Range(index) |-> [t \in Range(columns) |-> cell[d, t]]]]

\* pd.DataFrame()
EmptyDataFrame == DataFrame(<<>>, <<>>, [d \in {}, t \in {} |-> NaN])

\* DataFrame.empty: any axis of length 0
empty(df) == Len(df.columns) = 0 \/ Len(df.index) = 0

HasCol(df, t) == t \in Range(df.columns)

-----------------------------------------------------------------------------
(* What the price API may answer to one GET *)

Rec(d, p) == [date |-> d, adjClose |-> p]

\* Daily records the API may hold for a ticker, oldest first: a rising series
\* on days 1-3; a falling one that starts on day 2, skips day 3 and trades on
\* day 4; and a single record whose adjusted close is null.
SeriesPool ==
    { <<Rec(1, Num(2)), Rec(2, Num(3)), Rec(3, Num(4))>>,
      <<Rec(2, Num(4)), Rec(4, Num(2))>>,
      <<Rec(2, NaN)>> }

Reverse(s) == [i \in 1..Len(s) |-> s[Len(s) + 1 - i]]

\* requests.get raised; response.json() raised; a JSON object without
\* "historical"; "historical": []; "historical": [records], newest or oldest first
Responses ==
    { [status |-> "transport_error", has_historical |-> FALSE, historical |-> <<>>],
      [status |-> "not_json",        has_historical |-> FALSE, historical |-> <<>>],
      [status |-> "json",            has_historical |-> FALSE, historical |-> <<>>],
      [status |-> "json",            has_historical |-> TRUE,  historical |-> <<>>] }
    \cup { [status |-> "json", has_historical |-> TRUE, historical |-> h] : h \in SeriesPool }
    \cup { [status |-> "json", has_historical |-> TRUE, historical |-> Reverse(h)] : h \in SeriesPool }

-----------------------------------------------------------------------------
(* fetch_stock_data *)

\* df.sort_values('date'): insertion of each record after the records not
\* later than it
RECURSIVE InsertByDate(_, _)
InsertByDate(r, s) ==
    IF s = <<>> THEN <<r>>
    ELSE IF Head(s).date <= r.date THEN <<Head(s)>> \o InsertByDate(r, Tail(s))
    ELSE <<r>> \o s

RECURSIVE sort_values_date(_)
sort_values_date(s) ==
    IF s = <<>> THEN <<>>
    ELSE InsertByDate(Last(s), sort_values_date(SubSeq(s, 1, Len(s) - 1)))

\* lines 84-90: the frame built from data["historical"]
historical_frame(ticker, historical) ==
    LET sorted == sort_values_date(historical)
        index  == [i \in 1..Len(sorted) |-> sorted[i].date]
        at(d)  == CHOOSE i \in 1..Len(sorted) : sorted[i].date = d
    IN  DataFrame(<<ticker>>, index,
                  [d \in Range(index), t \in {ticker} |-> sorted[at(d)].adjClose])

\* The body of fetch_stock_data: the frame returned and whether the except
\* branch printed its message. df['date'] raises KeyError on the frame of an
\* empty list, which has no columns.
fetch_stock_data(ticker, resp) ==
    IF resp.status # "json" THEN [df |-> EmptyDataFrame, printed |-> TRUE]
    ELSE IF resp.has_historical THEN
        IF resp.historical = <<>> THEN [df |-> EmptyDataFrame, printed |-> TRUE]
        ELSE [df |-> historical_frame(ticker, resp.historical), printed |-> FALSE]
    ELSE [df |-> EmptyDataFrame, printed |-> FALSE]

-----------------------------------------------------------------------------
(* @st.cache_data(ttl=86400) *)

CacheKey(ticker, key, start_date) == <<ticker, key, start_date>>

\* an entry still served at the instant it expires
entry_live_inclusive(entry, t) == t <= entry.expires

\* an entry is served while the clock is before its expiry
entry_live(entry, t) == t < entry.expires

cache_hit(store, k, t) == k \in DOMAIN store /\ entry_live(store[k], t)

\* One call of the decorated function at time t, the API answering resp if it
\* is asked: the value returned, whether a request was issued, whether the
\* warning was printed, and the store afterwards.
cached_fetch_stock_data(store, t, ticker, key, start_date, resp) ==
    LET k == CacheKey(ticker, key, start_date)
    IN  IF cache_hit(store, k, t)
        THEN [value |-> store[k].value, network |-> FALSE, printed |-> FALSE, store |-> store]
        ELSE LET r == fetch_stock_data(ticker, resp)
                 e == [value |-> r.df, expires |-> t + TTL]
             IN  [value   |-> r.df,
                  network |-> TRUE,
                  printed |-> r.printed,
                  store   |-> [x \in DOMAIN store \cup {k} |-> IF x = k THEN e ELSE store[x]]]

-----------------------------------------------------------------------------
(* get_all_data *)

\* line 102: list(set(...)); the order of the list is the set's, hence any
all_tickers == UNION {Range(PORTFOLIOS[p]) : p \in Range(PORTFOLIO_NAMES)}

At(df, d, t) == IF d \in Range(df.index) /\ HasCol(df, t) THEN df.data[d][t] ELSE NaN

\* left.join(right, how='outer'): the sorted union of the two indexes, the
\* columns of left then those of right, NaN where a frame has no row
join_outer(left, right) ==
    LET columns == left.columns \o right.columns
        index   == SortedSeq(Range(left.index) \cup Range(right.index))
    IN  DataFrame(columns, index,
                  [d \in Range(index), t \in Range(columns) |->
                      IF HasCol(left, t) THEN At(left, d, t) ELSE At(right, d, t)])

\* left.join(right, how='inner'): only the dates both frames have
join_inner(left, right) ==
    LET columns == left.columns \o right.columns
        index   == SortedSeq(Range(left.index) \cap Range(right.index))
    IN  DataFrame(columns, index,
                  [d \in Range(index), t \in Range(columns) |->
                      IF HasCol(left, t) THEN At(left, d, t) ELSE At(right, d, t)])

\* left.join(right), how='left' being the default: only the dates of left
join_left(left, right) ==
    LET columns == left.columns \o right.columns
    IN  DataFrame(columns, left.index,
                  [d \in Range(left.index), t \in Range(columns) |->
                      IF HasCol(left, t) THEN At(left, d, t) ELSE At(right, d, t)])

\* the loop body with an inner join instead of the outer one
accumulate_inner(master, df) ==
    IF ~empty(df) THEN
        IF empty(master) THEN df ELSE join_inner(master, df)
    ELSE master

\* the loop body with the how= argument forgotten
accumulate_left(master, df) ==
    IF ~empty(df) THEN
        IF empty(master) THEN df ELSE join_left(master, df)
    ELSE master

\* lines 110-114: one iteration of the loop, after the fetch
accumulate(master, df) ==
    IF ~empty(df) THEN
        IF empty(master) THEN df ELSE join_outer(master, df)
    ELSE master

\* lines 103-117 for a given order of all_tickers, results[t] being what the
\* fetch of t returns
RECURSIVE get_all_data(_, _)
get_all_data(order, results) ==
    IF order = <<>> THEN EmptyDataFrame
    ELSE accumulate(get_all_data(SubSeq(order, 1, Len(order) - 1), results),
                    results[Last(order)])

-----------------------------------------------------------------------------
(* master_df.ffill().dropna() *)

\* the last valid value of column t at or above row i (NaN above the first)
RECURSIVE last_valid(_, _, _)
last_valid(df, i, t) ==
    IF i = 0 THEN NaN
    ELSE IF ~isna(df.data[df.index[i]][t]) THEN df.data[df.index[i]][t]
    ELSE last_valid(df, i - 1, t)

RowOf(df, d) == CHOOSE i \in 1..Len(df.index) : df.index[i] = d

ffill(df) ==
    DataFrame(df.columns, df.index,
              [d \in Range(df.index), t \in Range(df.columns) |->
                  last_valid(df, RowOf(df, d), t)])

dropna(df) ==
    LET keep(d) == \A t \in Range(df.columns) : ~isna(df.data[d][t])
    IN  DataFrame(df.columns, SelectSeq(df.index, keep),
                  [d \in Range(df.index), t \in Range(df.columns) |-> df.data[d][t]])

\* the cleaning with the forward fill forgotten
dropna_only(df) == dropna(df)

\* the cleaning with the incomplete rows kept
ffill_only(df) == ffill(df)

\* lines 121 and 146
ffill_dropna(df) == dropna(ffill(df))

-----------------------------------------------------------------------------
(* calculate_portfolio_performance *)

\* iloc[0], iloc[-1]
first_row(df) == df.data[df.index[1]]
last_row(df) == df.data[Last(df.index)]

\* line 149: (clean_df / clean_df.iloc[0]) * 100
normalize(clean_df) ==
    DataFrame(clean_df.columns, clean_df.index,
              [d \in Range(clean_df.index), t \in Range(clean_df.columns) |->
                  Mul(Div(clean_df.data[d][t], first_row(clean_df)[t]), Num(100))])

RECURSIVE SumCells(_)
SumCells(s) == IF s = <<>> THEN Num(0) ELSE Add(Head(s), SumCells(Tail(s)))

\* mean(axis=1) of one row: NaN cells are skipped
mean(cells) ==
    LET valid == SelectSeq(cells, LAMBDA x : ~isna(x))
    IN  IF valid = <<>> THEN NaN ELSE Div(SumCells(valid), Num(Len(valid)))

\* line 153
valid_tickers(tickers, df) == SelectSeq(tickers, LAMBDA t : HasCol(df, t))

\* the value of a portfolio with the sum divided by its nominal size
portfolio_mean_nominal(normalized_df, tickers, d) ==
    LET valid == valid_tickers(tickers, normalized_df)
    IN  IF valid = <<>> THEN NaN
        ELSE Div(SumCells([i \in 1..Len(valid) |-> normalized_df.data[d][valid[i]]]),
                 Num(Len(tickers)))

\* lines 153-155: the value of a portfolio at date d, from its ticker list
portfolio_mean(normalized_df, tickers, d) ==
    LET valid == valid_tickers(tickers, normalized_df)
    IN  mean([i \in 1..Len(valid) |-> normalized_df.data[d][valid[i]]])

calculate_portfolio_performance(df, names, portfolios) ==
    LET clean_df == ffill_dropna(df)
    IN  IF empty(clean_df) THEN EmptyDataFrame
        ELSE LET normalized_df == normalize(clean_df)
                 has(p) == valid_tickers(portfolios[p], normalized_df) # <<>>
             IN  DataFrame(SelectSeq(names, has), normalized_df.index,
                           [d \in Range(normalized_df.index), p \in Range(names) |->
                               portfolio_mean(normalized_df, portfolios[p], d)])

-----------------------------------------------------------------------------
(* get_stock_returns and the leaderboard *)

\* sort_values("Return", ascending=False) on a short frame: rows of equal
\* Return keep the order they had
RECURSIVE InsertDesc(_, _)
InsertDesc(r, s) ==
    IF s = <<>> THEN <<r>>
    ELSE IF Greater(r.Return, Head(s).Return) THEN <<r>> \o s
    ELSE <<Head(s)>> \o InsertDesc(r, Tail(s))

\* the sort with ascending left at its default
RECURSIVE InsertAsc(_, _)
InsertAsc(r, s) ==
    IF s = <<>> THEN <<r>>
    ELSE IF Greater(Head(s).Return, r.Return) THEN <<r>> \o s
    ELSE <<Head(s)>> \o InsertAsc(r, Tail(s))

RECURSIVE sort_values_asc(_)
sort_values_asc(s) ==
    IF s = <<>> THEN <<>>
    ELSE InsertAsc(Last(s), sort_values_asc(SubSeq(s, 1, Len(s) - 1)))

RECURSIVE sort_values_desc(_)
sort_values_desc(s) ==
    IF s = <<>> THEN <<>>
    ELSE InsertDesc(Last(s), sort_values_desc(SubSeq(s, 1, Len(s) - 1)))

\* (end - start) / start * 100
total_return(start, end) == Mul(Div(Sub(end, start), start), Num(100))

\* the loop without its continue
skipped_never(p_name) == FALSE

\* line 130
skipped(p_name) == p_name = "SPY"

\* lines 132-141: the frame of one portfolio, in the order of its ticker list
p_df(df, tickers) ==
    LET present == valid_tickers(tickers, df)
        p_data  == [i \in 1..Len(present) |->
                       [Stock  |-> present[i],
                        Return |-> total_return(first_row(df)[present[i]],
                                                last_row(df)[present[i]])]]
    IN  IF p_data # <<>> THEN sort_values_desc(p_data) ELSE p_data

get_stock_returns(raw, names, portfolios) ==
    LET df == ffill_dropna(raw)
    IN  IF empty(df) THEN <<>>
        ELSE [p \in {q \in Range(names) : ~skipped(q)} |-> p_df(df, portfolios[p])]

\* lines 230-235
sorted_returns(chart_data) ==
    sort_values_desc([i \in 1..Len(chart_data.columns) |->
        [Stock  |-> chart_data.columns[i],
         Return |-> total_return(first_row(chart_data)[chart_data.columns[i]],
                                 last_row(chart_data)[chart_data.columns[i]])]])

-----------------------------------------------------------------------------
(* The main flow, lines 219-349 *)

\* the st.error messages of the script; none of them is about a portfolio
ERR_API_KEY == [text |-> "No se encontro la API Key.", about |-> None]
ERR_NO_DATA == [text |-> "La API no devolvio datos.", about |-> None]
ERR_INSUFFICIENT ==
    [text |-> "No hay suficientes datos. Intenta con una fecha de inicio mas antigua.",
     about |-> None]

NoUi ==
    [outcome       |-> "running",
     errors        |-> {},
     chart_data    |-> EmptyDataFrame,
     leaderboard   |-> <<>>,
     stock_returns |-> <<>>,
     tables        |-> <<>>]

\* lines 330-345: the tables shown before the loop ends or raises. Assigning
\* two column names to the frame of an empty p_data, which has no column,
\* raises ValueError.
RECURSIVE shown_tables(_, _)
shown_tables(targets, stock_returns) ==
    IF targets = <<>> THEN <<>>
    ELSE IF Head(targets) \in DOMAIN stock_returns
         THEN IF stock_returns[Head(targets)] = <<>> THEN <<>>
              ELSE <<Head(targets)>> \o shown_tables(Tail(targets), stock_returns)
    ELSE shown_tables(Tail(targets), stock_returns)

raises(targets, stock_returns) ==
    \E i \in 1..Len(targets) :
        targets[i] \in DOMAIN stock_returns /\ stock_returns[targets[i]] = <<>>

\* lines 222-349, with raw_data = get_all_data(...)
main_flow(raw_data) ==
    IF empty(raw_data) THEN [NoUi EXCEPT !.outcome = "no_data", !.errors = {ERR_NO_DATA}]
    ELSE LET chart_data == calculate_portfolio_performance(raw_data, PORTFOLIO_NAMES, PORTFOLIOS)
         IN  IF empty(chart_data)
             THEN [NoUi EXCEPT !.outcome = "insufficient_data", !.errors = {ERR_INSUFFICIENT}]
             ELSE LET stock_returns == get_stock_returns(raw_data, PORTFOLIO_NAMES, PORTFOLIOS)
                  IN  [outcome       |-> IF raises(target_portfolios, stock_returns)
                                         THEN "exception" ELSE "ok",
                       errors        |-> {},
                       chart_data    |-> chart_data,
                       leaderboard   |-> sorted_returns(chart_data),
                       stock_returns |-> stock_returns,
                       tables        |-> shown_tables(target_portfolios, stock_returns)]

-----------------------------------------------------------------------------
(* State machine of one run of the script *)

NoCall ==
    [ticker |-> None, at |-> 0, kind |-> "none", value |-> EmptyDataFrame,
     network |-> FALSE, printed |-> FALSE, had_prior |-> FALSE,
     prior_at |-> 0, prior_value |-> EmptyDataFrame]

Kind(resp) ==
    IF resp.status # "json" THEN resp.status
    ELSE IF ~resp.has_historical THEN "no_historical"
    ELSE IF resp.historical = <<>> THEN "empty_list"
    ELSE "ok"

Init ==
    /\ api_key \in {"k", None}
    /\ pc = "start"
    /\ pending = {}
    /\ master_df = EmptyDataFrame
    /\ cache = <<>>
    /\ now = 0
    /\ log = {}
    /\ last = NoCall
    /\ issued = <<>>
    /\ ui = NoUi

\* what the call fetch_stock_data(ticker, api_key, START_DATE) does now, the
\* API answering resp if it is asked
CallResult(ticker, resp) ==
    cached_fetch_stock_data(cache, now, ticker, api_key, START_DATE, resp)

\* the call's effects: the store, the printed warnings, the requests issued
Call(ticker, resp) ==
    LET k == CacheKey(ticker, api_key, START_DATE)
        r == CallResult(ticker, resp)
    IN  /\ cache' = r.store
        /\ log' = IF r.printed THEN log \cup {ticker} ELSE log
        /\ issued' = IF r.network
                     THEN [x \in DOMAIN issued \cup {k} |->
                              IF x = k THEN [at |-> now, value |-> r.value] ELSE issued[x]]
                     ELSE issued

\* what a caller that watches the call and the network sees of it
Observed(ticker, resp) ==
    LET k == CacheKey(ticker, api_key, START_DATE)
        r == CallResult(ticker, resp)
    IN  [ticker      |-> ticker,
         at          |-> now,
         kind        |-> IF r.network THEN Kind(resp) ELSE "no_request",
         value       |-> r.value,
         network     |-> r.network,
         printed     |-> r.printed,
         had_prior   |-> k \in DOMAIN issued,
         prior_at    |-> IF k \in DOMAIN issued THEN issued[k].at ELSE 0,
         prior_value |-> IF k \in DOMAIN issued THEN issued[k].value ELSE EmptyDataFrame]

\* line 219 and lines 98-103: without a key the script shows the
\* configuration error and does nothing else
Start ==
    /\ pc = "start"
    /\ IF api_key = None
       THEN /\ pc' = "done"
            /\ ui' = [NoUi EXCEPT !.outcome = "no_api_key", !.errors = {ERR_API_KEY}]
            /\ UNCHANGED pending
       ELSE /\ pc' = "get_all_data"
            /\ pending' = all_tickers
            /\ UNCHANGED ui
    /\ master_df' = EmptyDataFrame
    /\ UNCHANGED <<api_key, cache, now, log, last, issued>>

\* lines 108-114: one iteration, for whichever ticker the list holds next
Fetch ==
    /\ pc = "get_all_data"
    /\ \E ticker \in pending, resp \in Responses :
          /\ Call(ticker, resp)
          /\ master_df' = accumulate(master_df, CallResult(ticker, resp).value)
          /\ pending' = pending \ {ticker}
    /\ UNCHANGED <<api_key, pc, now, last, ui>>

\* lines 117 and 222-349: get_all_data returns and the page is built
Render ==
    /\ pc = "get_all_data"
    /\ pending = {}
    /\ ui' = main_flow(master_df)
    /\ pc' = "done"
    /\ UNCHANGED <<api_key, pending, master_df, cache, now, log, last, issued>>

Next == Start \/ Fetch \/ Render

Spec == Init /\ [][Next]_vars

-----------------------------------------------------------------------------
(* The cached fetch_stock_data alone, called again and again while the clock
   runs: the script is rerun on every interaction, with the store kept. *)

\* the clock is followed for this many half days
MaxHalfDays == 4

HalfDay == TTL \div 2

ProbeTickers == {"SPY", "MSFT"}

InitCache ==
    /\ api_key = "k"
    /\ pc = "cache"
    /\ pending = {}
    /\ master_df = EmptyDataFrame
    /\ cache = <<>>
    /\ now = 0
    /\ log = {}
    /\ last = NoCall
    /\ issued = <<>>
    /\ ui = NoUi

Probe ==
    /\ \E ticker \in ProbeTickers, resp \in Responses :
          /\ Call(ticker, resp)
          /\ last' = Observed(ticker, resp)
    /\ UNCHANGED <<api_key, pc, pending, master_df, now, ui>>

\* time passes: half a day, or a second less
Tick ==
    /\ \E dt \in {HalfDay, HalfDay - 1} :
          /\ now + dt <= MaxHalfDays * HalfDay
          /\ now' = now + dt
    /\ UNCHANGED <<api_key, pc, pending, master_df, cache, log, last, issued, ui>>

NextCache == Probe \/ Tick

SpecCache == InitCache /\ [][NextCache]_vars

-----------------------------------------------------------------------------
(* Properties of the aggregation (get_all_data) *)

Key(t) == CacheKey(t, api_key, START_DATE)

InRun == pc \in {"get_all_data", "done"} /\ api_key # None

\* the tickers the loop has been through, what each fetch returned, and the
\* tickers whose fetch returned a series
Visited == all_tickers \ pending

Fetched(t) == issued[Key(t)].value

Succeeded == {t \in Visited : ~empty(Fetched(t))}

\* C1: whatever the fetches answered, the aggregated table has one column per
\* ticker whose fetch returned a series and no other, and one row per date of
\* any of these series and no other; a failed fetch leaves the columns of the
\* others in place.
C1_AggregateExact ==
    InRun =>
        /\ Range(master_df.columns) = Succeeded
        /\ Len(master_df.columns) = Cardinality(Succeeded)
        /\ Range(master_df.index) = UNION {Range(Fetched(t).index) : t \in Succeeded}
        /\ \A t \in Succeeded, d \in Range(master_df.index) :
              master_df.data[d][t] = At(Fetched(t), d, t)

\* a finished loop in which a fetch failed, two succeeded on different
\* calendars, and the table has more dates than one of them
C1_Witness ==
    /\ InRun /\ pc = "done"
    /\ Visited \ Succeeded # {}
    /\ \E t1, t2 \in Succeeded :
          /\ Range(Fetched(t1).index) # Range(Fetched(t2).index)
          /\ Range(master_df.index) # Range(Fetched(t1).index)

\* the tickers in the order of the portfolio lists
ListedOrder == PORTFOLIOS["ChatGPT"] \o PORTFOLIOS["Gemini"] \o PORTFOLIOS["SPY"]

\* the table get_all_data builds from the same fetch results when it visits
\* the tickers in the listed order
ListedTable ==
    get_all_data(SelectSeq(ListedOrder, LAMBDA t : t \in Visited),
                 [t \in Visited |-> Fetched(t)])

SameContent(a, b) ==
    /\ Range(a.columns) = Range(b.columns)
    /\ Range(a.index) = Range(b.index)
    /\ \A d \in Range(a.index), t \in Range(a.columns) : a.data[d][t] = b.data[d][t]

\* C10: the order in which the loop visits the tickers changes nothing but the
\* order of the columns: the table built in any order has the columns, the
\* dates and the cells (values and missing markers) of the table built from
\* the same fetch results in the listed order.
C10_OrderIndependent == InRun => SameContent(master_df, ListedTable)

\* a finished loop that visited the tickers in another order than the listed
\* one, with at least three columns and a missing cell
C10_Witness ==
    /\ InRun /\ pc = "done"
    /\ Len(master_df.columns) >= 3
    /\ master_df.columns # ListedTable.columns
    /\ \E d \in Range(master_df.index), t \in Range(master_df.columns) :
          isna(master_df.data[d][t])

-----------------------------------------------------------------------------
(* Properties of the cleaning (ffill then dropna) *)

\* the dates on which column t of df has a value
Prints(df, t) == {d \in Range(df.index) : ~isna(df.data[d][t])}

EveryColumnPrints(df) == \A t \in Range(df.columns) : Prints(df, t) # {}

\* the dates on or after the latest first print; none when a column never prints
CommonDates(df) ==
    IF ~EveryColumnPrints(df) THEN {}
    ELSE IF df.columns = <<>> THEN Range(df.index)
    ELSE LET start == Max({Min(Prints(df, t)) : t \in Range(df.columns)})
         IN  {d \in Range(df.index) : d >= start}

\* C5: the cleaned table has no missing cell; its rows are the dates on or
\* after the latest first print of any column, in ascending order; each cell
\* is the column's most recent value at or before the date. Earlier rows are
\* dropped, not filled.
C5_CleanExact ==
    InRun =>
        LET clean == ffill_dropna(master_df)
        IN  /\ clean.columns = master_df.columns
            /\ clean.index = SortedSeq(CommonDates(master_df))
            /\ \A d \in Range(clean.index), t \in Range(clean.columns) :
                  /\ ~isna(clean.data[d][t])
                  /\ clean.data[d][t] =
                        master_df.data[Max({e \in Prints(master_df, t) : e <= d})][t]

\* a table whose cleaning drops leading rows and fills a gap
C5_Witness ==
    /\ InRun /\ pc = "done"
    /\ LET clean == ffill_dropna(master_df)
       IN  /\ Len(clean.index) >= 2
           /\ Len(clean.index) < Len(master_df.index)
           /\ \E d \in Range(clean.index), t \in Range(clean.columns) :
                 isna(master_df.data[d][t])

-----------------------------------------------------------------------------
(* Properties of what the page shows *)

\* the run got as far as the leaderboard, the chart and the rankings
Produced == pc = "done" /\ ui.outcome \in {"ok", "exception"}

\* the tickers of portfolio p that are columns of the table
Present(p) == {t \in Range(PORTFOLIOS[p]) : HasCol(master_df, t)}

\* the most recent value of column t at or before date d
Filled(df, d, t) == df.data[Max({e \in Prints(df, t) : e <= d})][t]

FirstDate(df) == Min(CommonDates(df))
LastDate(df) == Max(CommonDates(df))

RECURSIVE ProdOver(_, _)
ProdOver(f, S) ==
    IF S = {} THEN 1 ELSE LET x == CHOOSE y \in S : TRUE IN f[x] * ProdOver(f, S \ {x})

RECURSIVE SumOver(_, _)
SumOver(f, S) ==
    IF S = {} THEN 0 ELSE LET x == CHOOSE y \in S : TRUE IN f[x] + SumOver(f, S \ {x})

\* cell is the arithmetic mean over S of price(t) / first(t) * 100, stated on
\* integers: a/b = (1/|S|) * SUM n[t]/m[t]
IsMeanOfRebased(cell, S, price, first) ==
    LET n == [t \in S |-> 100 * price[t][1] * first[t][2]]
        m == [t \in S |-> price[t][2] * first[t][1]]
        g == [t \in S |-> n[t] * ProdOver(m, S \ {t})]
    IN  /\ ~isna(cell)
        /\ cell[2] # 0
        /\ cell[1] * Cardinality(S) * ProdOver(m, S) = cell[2] * SumOver(g, S)

\* C6: every portfolio with a ticker among the columns has a series over all
\* the dates of the cleaned table; each of its cells is a number, the
\* arithmetic mean of price / first price * 100 over the portfolio's tickers that
\* are columns and over no other ticker.
C6_RollUpMean ==
    Produced =>
        /\ Range(ui.chart_data.index) = CommonDates(master_df)
        /\ \A p \in Range(PORTFOLIO_NAMES) :
              Present(p) # {} =>
                  /\ HasCol(ui.chart_data, p)
                  /\ \A d \in CommonDates(master_df) :
                        IsMeanOfRebased(ui.chart_data.data[d][p], Present(p),
                            [t \in Present(p) |-> Filled(master_df, d, t)],
                            [t \in Present(p) |->
                                Filled(master_df, FirstDate(master_df), t)])

\* a portfolio that lost a constituent and keeps a series that moves
C6_Witness ==
    /\ Produced
    /\ \E p \in Range(PORTFOLIO_NAMES) :
          /\ Present(p) # {}
          /\ Present(p) # Range(PORTFOLIOS[p])
          /\ Len(ui.chart_data.index) >= 2
          /\ ui.chart_data.data[LastDate(master_df)][p] # Num(100)

NonIncreasing(rows) ==
    \A i, j \in 1..Len(rows) : i < j => ~Greater(rows[j].Return, rows[i].Return)

\* ret is (end - start) / start * 100, stated on integers
IsTotalReturn(ret, start, end) ==
    /\ ~isna(ret)
    /\ ret[1] * end[2] * start[1] = ret[2] * 100 * (end[1] * start[2] - start[1] * end[2])

\* C7: each portfolio's ranking lists its tickers that are columns, once each,
\* with return (last - first) / first * 100 on the cleaned table, in
\* non-increasing order of return; the leaderboard lists the portfolios of the
\* chart with their total return, in non-increasing order; and both are the
\* ones the same fetch results give when the tickers are visited in the listed
\* order, so equal returns come in the same order on every run.
C7_Ranked ==
    Produced =>
        /\ \A p \in DOMAIN ui.stock_returns :
              LET rows == ui.stock_returns[p]
              IN  /\ {rows[i].Stock : i \in 1..Len(rows)} = Present(p)
                  /\ Len(rows) = Cardinality(Present(p))
                  /\ NonIncreasing(rows)
                  /\ \A i \in 1..Len(rows) :
                        IsTotalReturn(rows[i].Return,
                            Filled(master_df, FirstDate(master_df), rows[i].Stock),
                            Filled(master_df, LastDate(master_df), rows[i].Stock))
        /\ {ui.leaderboard[i].Stock : i \in 1..Len(ui.leaderboard)}
              = Range(ui.chart_data.columns)
        /\ Len(ui.leaderboard) = Len(ui.chart_data.columns)
        /\ NonIncreasing(ui.leaderboard)
        /\ \A i \in 1..Len(ui.leaderboard) :
              IsTotalReturn(ui.leaderboard[i].Return,
                  ui.chart_data.data[FirstDate(master_df)][ui.leaderboard[i].Stock],
                  ui.chart_data.data[LastDate(master_df)][ui.leaderboard[i].Stock])
        /\ ui.stock_returns = get_stock_returns(ListedTable, PORTFOLIO_NAMES, PORTFOLIOS)
        /\ ui.leaderboard =
              sorted_returns(calculate_portfolio_performance(ListedTable, PORTFOLIO_NAMES,
                                                             PORTFOLIOS))

\* a run that visited the tickers in another order than the listed one and
\* ranks a portfolio of two different returns, a portfolio of two equal
\* returns, and a leaderboard of different returns
C7_Witness ==
    /\ Produced
    /\ master_df.columns # ListedTable.columns
    /\ \E p, q \in DOMAIN ui.stock_returns :
          /\ Len(ui.stock_returns[p]) = 2
          /\ Greater(ui.stock_returns[p][1].Return, ui.stock_returns[p][2].Return)
          /\ Len(ui.stock_returns[q]) = 2
          /\ ui.stock_returns[q][1].Return = ui.stock_returns[q][2].Return
    /\ Len(ui.leaderboard) = 3
    /\ Greater(ui.leaderboard[1].Return, ui.leaderboard[3].Return)

\* the portfolios that hold exactly one ticker
Benchmarks == {p \in Range(PORTFOLIO_NAMES) : Len(PORTFOLIOS[p]) = 1}

LeaderboardNames == {ui.leaderboard[i].Stock : i \in 1..Len(ui.leaderboard)}

C4_InsufficientData ==
    (InRun /\ pc = "done" /\ ~empty(master_df) /\ CommonDates(master_df) = {}) =>
        /\ ui.outcome = "insufficient_data"
        /\ ui.errors = {ERR_INSUFFICIENT}
        /\ empty(ui.chart_data)
        /\ ui.leaderboard = <<>>
        /\ DOMAIN ui.stock_returns = {}
        /\ ui.tables = <<>>

\* a finished run over a table of several columns, one of which never prints
C4_Witness ==
    /\ InRun /\ pc = "done"
    /\ Len(master_df.columns) >= 2
    /\ \E t \in Range(master_df.columns) : Prints(master_df, t) # {}
    /\ CommonDates(master_df) = {}
    /\ ui.outcome = "insufficient_data"

\* C3: a portfolio none of whose tickers is a column is left out of the
\* performance table and the page reports that omission.
C3_OmissionReported ==
    Produced =>
        \A p \in Range(PORTFOLIO_NAMES) :
            Present(p) = {} =>
                /\ ~HasCol(ui.chart_data, p)
                /\ \E e \in ui.errors : e.about = p

-----------------------------------------------------------------------------
(* Properties of the cached fetch *)

FailureKinds == {"transport_error", "not_json", "no_historical", "empty_list"}

\* C2: whichever way the fetch fails (transport failure, response that is not
\* JSON, JSON without the historical field, empty historical list), the call
\* returns an empty frame and prints its warning.
C2_FailureLogged ==
    last.kind \in FailureKinds => empty(last.value) /\ last.printed

\* C9: a call finds the latest request for its key (ticker, credential, start
\* date). If that request was issued less than 24 hours before, the call
\* returns what that earlier call returned and issues no request; if it was
\* issued 24 hours before or earlier, or never, the call issues a request.
C9_CacheTTL ==
    last.ticker # None =>
        /\ (last.had_prior /\ last.at - last.prior_at < TTL) =>
              ~last.network /\ last.value = last.prior_value
        /\ (last.had_prior /\ last.at - last.prior_at >= TTL) => last.network
        /\ ~last.had_prior => last.network

\* a call served from the store one second before the entry expires, returning
\* a series
C9_Witness ==
    /\ last.ticker # None
    /\ last.had_prior
    /\ last.at - last.prior_at = TTL - 1
    /\ ~last.network
    /\ ~empty(last.value)

====
